---- MODULE Spec2Model ----
(***************************************************************************)
(* Model of trainingpicopark/metrics_logger.py (MetricsLogger) and of the  *)
(* empty-input path of trainingpicopark/plot_metrics.py.                   *)
(*                                                                         *)
(* The metrics file is a sequence of JSON tokens: json.dump produces it    *)
(* from the in-memory log, json.load parses it back.  A save is a sequence *)
(* of steps (makedirs, open for writing, buffered writes, close) so that   *)
(* the file can be observed, and the write can fail, between them.         *)
(***************************************************************************)
EXTENDS Integers, Sequences, FiniteSets, TLC

\* Longest in-memory log explored.
MaxLog == 2

\* Tokens between two flushes of the buffered writer (a written prefix of
\* the file ends on a multiple of it).
FlushEvery == 8

(***************************************************************************)
(* Python values that reach the logger: int, float (in tenths), str, None. *)
(***************************************************************************)
PyInt(i) == [ty |-> "int", n |-> i, s |-> ""]

PyFloat(tenths) == [ty |-> "float", n |-> tenths, s |-> ""]

PyNaN == [ty |-> "float", n |-> 0, s |-> "nan"]

PyStr(str) == [ty |-> "str", n |-> 0, s |-> str]

PyNone == [ty |-> "none", n |-> 0, s |-> ""]

\* The dataclass fields of MetricEntry, in declaration order.
Fields ==
    << "iteration", "level", "mean_return", "std_return",
       "policy_loss", "value_loss", "elapsed_time" >>

FieldSet == { Fields[i] : i \in 1..Len(Fields) }

\* MetricEntry(iteration=..., level=..., ...): the constructor call of
\* log_iteration, each argument bound to the field of its name.
MetricEntrySwapped(iteration, level, mean_return, std_return, policy_loss, value_loss, elapsed_time) ==
    [ iteration    |-> iteration,
      level        |-> level,
      mean_return  |-> mean_return,
      std_return   |-> std_return,
      policy_loss  |-> value_loss,
      value_loss   |-> policy_loss,
      elapsed_time |-> elapsed_time ]

MetricEntry(iteration, level, mean_return, std_return, policy_loss, value_loss, elapsed_time) ==
    [ iteration    |-> iteration,
      level        |-> level,
      mean_return  |-> mean_return,
      std_return   |-> std_return,
      policy_loss  |-> policy_loss,
      value_loss   |-> value_loss,
      elapsed_time |-> elapsed_time ]

\* The entry built from a tuple of the seven arguments of log_iteration.
EntryOf(a) == MetricEntry(a[1], a[2], a[3], a[4], a[5], a[6], a[7])

(***************************************************************************)
(* JSON text as tokens.  A number token keeps its sign, integer part and   *)
(* one fraction digit; frac = -1 is a literal without a fraction part.     *)
(***************************************************************************)
Punct(c) == [t |-> c, s |-> "", neg |-> FALSE, whole |-> 0, frac |-> -1]

StrTok(str) == [t |-> "str", s |-> str, neg |-> FALSE, whole |-> 0, frac |-> -1]

NumTok(neg, whole, frac) ==
    [t |-> "num", s |-> "", neg |-> neg, whole |-> whole, frac |-> frac]

NaNTok == [t |-> "NaN", s |-> "", neg |-> FALSE, whole |-> 0, frac |-> -1]

NullTok == [t |-> "null", s |-> "", neg |-> FALSE, whole |-> 0, frac |-> -1]

\* Text that is no JSON at all.
GarbageTok == [t |-> "garbage", s |-> "", neg |-> FALSE, whole |-> 0, frac |-> -1]

Abs(i) == IF i < 0 THEN -i ELSE i

\* json.dump of one scalar: int as digits, float as repr (always with a
\* fraction part), nan as NaN, str quoted, None as null.
EncodeValueNoSign(v) ==
    CASE v.ty = "str"   -> StrTok(v.s)
      [] v.ty = "int"   -> NumTok(FALSE, Abs(v.n), -1)
      [] v.ty = "float" ->
            IF v.s = "nan" THEN NaNTok
            ELSE NumTok(FALSE, Abs(v.n) \div 10, Abs(v.n) % 10)
      [] OTHER          -> NullTok

EncodeValue(v) ==
    CASE v.ty = "str"   -> StrTok(v.s)
      [] v.ty = "int"   -> NumTok(v.n < 0, Abs(v.n), -1)
      [] v.ty = "float" ->
            IF v.s = "nan" THEN NaNTok
            ELSE NumTok(v.n < 0, Abs(v.n) \div 10, Abs(v.n) % 10)
      [] OTHER          -> NullTok

\* dataclasses.asdict(m): the (name, value) pairs in field order.
asdict(m) == [ i \in 1..Len(Fields) |-> [k |-> Fields[i], v |-> m[Fields[i]]] ]

\* json.dump of a dict: { "k": v, ... } in the dict's order.
RECURSIVE EncodePairs(_)
EncodePairs(pairs) ==
    IF pairs = << >> THEN << >>
    ELSE << StrTok(Head(pairs).k), Punct(":"), EncodeValue(Head(pairs).v) >>
         \o (IF Len(pairs) > 1 THEN << Punct(",") >> ELSE << >>)
         \o EncodePairs(Tail(pairs))

EncodeObject(pairs) == << Punct("{") >> \o EncodePairs(pairs) \o << Punct("}") >>

\* json.dump of a list of dicts.
RECURSIVE EncodeItems(_)
EncodeItems(dicts) ==
    IF dicts = << >> THEN << >>
    ELSE EncodeObject(Head(dicts))
         \o (IF Len(dicts) > 1 THEN << Punct(",") >> ELSE << >>)
         \o EncodeItems(Tail(dicts))

EncodeList(dicts) == << Punct("[") >> \o EncodeItems(dicts) \o << Punct("]") >>

\* json.dump([asdict(m) for m in self.metrics], f, indent=2): the whole text.
SerializeLastOnly(log) ==
    EncodeList([ i \in 1..(IF log = << >> THEN 0 ELSE 1) |-> asdict(log[Len(log)]) ])

Serialize(log) == EncodeList([ i \in 1..Len(log) |-> asdict(log[i]) ])

(***************************************************************************)
(* json.load: a recursive-descent parse of the token text.  The result is  *)
(* [ok, kind, items, pairs, val]; ok = FALSE stands for JSONDecodeError.   *)
(***************************************************************************)
IsScalar(tok) == tok.t \in {"str", "num", "NaN", "null"}

\* The Python value of a scalar token: a number literal without a fraction
\* part is an int, one with a fraction part a float.
DecodeValueAsInt(tok) ==
    CASE tok.t = "str" -> PyStr(tok.s)
      [] tok.t = "num" -> PyInt((IF tok.neg THEN -1 ELSE 1) * tok.whole)
      [] tok.t = "NaN" -> PyNaN
      [] OTHER         -> PyNone

DecodeValue(tok) ==
    CASE tok.t = "str" -> PyStr(tok.s)
      [] tok.t = "num" ->
            IF tok.frac = -1
            THEN PyInt((IF tok.neg THEN -1 ELSE 1) * tok.whole)
            ELSE PyFloat((IF tok.neg THEN -1 ELSE 1) * (tok.whole * 10 + tok.frac))
      [] tok.t = "NaN" -> PyNaN
      [] OTHER         -> PyNone

ParseFail == [ok |-> FALSE, kind |-> "", items |-> << >>, pairs |-> << >>,
              val |-> PyNone, next |-> 0]

\* "key": scalar pairs from position i up to the closing brace.
RECURSIVE ParsePairs(_, _, _)
ParsePairs(toks, i, acc) ==
    IF i + 3 <= Len(toks) /\ toks[i].t = "str" /\ toks[i + 1].t = ":"
          /\ IsScalar(toks[i + 2])
    THEN LET acc2 == Append(acc, [k |-> toks[i].s, v |-> DecodeValue(toks[i + 2])])
         IN  IF toks[i + 3].t = "," THEN ParsePairs(toks, i + 4, acc2)
             ELSE IF toks[i + 3].t = "}"
             THEN [ParseFail EXCEPT !.ok = TRUE, !.kind = "dict",
                                    !.pairs = acc2, !.next = i + 4]
             ELSE ParseFail
    ELSE ParseFail

\* An object whose opening brace is at position i.
ParseObject(toks, i) ==
    IF i + 1 <= Len(toks) /\ toks[i + 1].t = "}"
    THEN [ParseFail EXCEPT !.ok = TRUE, !.kind = "dict", !.next = i + 2]
    ELSE ParsePairs(toks, i + 1, << >>)

\* The elements of an array from position i up to the closing bracket; an
\* element is an object or a scalar.
RECURSIVE ParseItems(_, _, _)
ParseItems(toks, i, acc) ==
    IF i > Len(toks) THEN ParseFail
    ELSE LET elem ==
                 IF toks[i].t = "{"
                 THEN LET o == ParseObject(toks, i)
                      IN  [ok |-> o.ok, next |-> o.next,
                           item |-> [isDict |-> TRUE, pairs |-> o.pairs, val |-> PyNone]]
                 ELSE IF IsScalar(toks[i])
                 THEN [ok |-> TRUE, next |-> i + 1,
                       item |-> [isDict |-> FALSE, pairs |-> << >>,
                                 val |-> DecodeValue(toks[i])]]
                 ELSE [ok |-> FALSE, next |-> 0,
                       item |-> [isDict |-> FALSE, pairs |-> << >>, val |-> PyNone]]
             j == elem.next
         IN  IF ~elem.ok \/ j > Len(toks) THEN ParseFail
             ELSE IF toks[j].t = "," THEN ParseItems(toks, j + 1, Append(acc, elem.item))
             ELSE IF toks[j].t = "]"
             THEN [ParseFail EXCEPT !.ok = TRUE, !.kind = "list",
                                    !.items = Append(acc, elem.item), !.next = j + 1]
             ELSE ParseFail

\* json.load(f): one JSON value and nothing after it.
json_load(toks) ==
    IF toks = << >> THEN ParseFail
    ELSE LET r == IF toks[1].t = "["
                  THEN IF Len(toks) >= 2 /\ toks[2].t = "]"
                       THEN [ParseFail EXCEPT !.ok = TRUE, !.kind = "list", !.next = 3]
                       ELSE ParseItems(toks, 2, << >>)
                  ELSE IF toks[1].t = "{" THEN ParseObject(toks, 1)
                  ELSE IF IsScalar(toks[1])
                  THEN [ParseFail EXCEPT !.ok = TRUE, !.kind = "scalar",
                                         !.val = DecodeValue(toks[1]), !.next = 2]
                  ELSE ParseFail
         IN  IF r.ok /\ r.next = Len(toks) + 1 THEN r ELSE ParseFail

\* MetricEntry(**d) succeeds when d is a dict whose keys are exactly the seven
\* fields (none has a default, none other is accepted); else TypeError.
Keys(pairs) == { pairs[i].k : i \in 1..Len(pairs) }

CanBuild(item) == item.isDict /\ Keys(item.pairs) = FieldSet

\* d[f] of the dict json.load built: the last pair of a repeated key wins.
DictGet(pairs, f) ==
    pairs[CHOOSE i \in 1..Len(pairs) :
              pairs[i].k = f /\ \A j \in (i + 1)..Len(pairs) : pairs[j].k # f].v

BuildEntry(item) == [ f \in FieldSet |-> DictGet(item.pairs, f) ]

\* The entries of a parsed document, [MetricEntry(**d) for d in data]; ok is
\* FALSE when the comprehension raises.  Iterating a dict yields its keys
\* and iterating a str its characters, which MetricEntry(**d) rejects;
\* any other scalar is not iterable.
EntriesOf(data) ==
    CASE data.kind = "list" ->
            IF \A i \in 1..Len(data.items) : CanBuild(data.items[i])
            THEN [ok |-> TRUE,
                  log |-> [ i \in 1..Len(data.items) |-> BuildEntry(data.items[i]) ]]
            ELSE [ok |-> FALSE, log |-> << >>]
      [] data.kind = "dict" -> [ok |-> data.pairs = << >>, log |-> << >>]
      [] OTHER ->
            [ok |-> data.val.ty = "str" /\ data.val.s = "", log |-> << >>]

\* The well-formed leading entries of a parsed list.
RECURSIVE ValidPrefix(_)
ValidPrefix(items) ==
    IF items = << >> \/ ~CanBuild(Head(items)) THEN << >>
    ELSE << BuildEntry(Head(items)) >> \o ValidPrefix(Tail(items))

\* _load_existing: the log a constructor ends with, given the file.
LoadExistingPartial(f) ==
    IF ~f.exists THEN << >>
    ELSE LET data == json_load(f.text)
         IN  IF data.ok /\ data.kind = "list" THEN ValidPrefix(data.items) ELSE << >>

LoadExistingNothing(f) == << >>

LoadExisting(f) ==
    IF ~f.exists THEN << >>
    ELSE LET data == json_load(f.text)
         IN  IF ~data.ok THEN << >>
             ELSE IF EntriesOf(data).ok THEN EntriesOf(data).log ELSE << >>

(***************************************************************************)
(* The file system: the metrics file, and the directories that exist.  A   *)
(* path is its sequence of components; << "." >> is the current directory. *)
(***************************************************************************)
Paths ==
    { << "metrics.json" >>,
      << "runs", "metrics.json" >>,
      << "runs", "pico64", "metrics.json" >> }

\* os.path.dirname(filepath) or "."
Dirname(p) == SubSeq(p, 1, Len(p) - 1)

DirOrDot(p) == IF Dirname(p) = << >> THEN << "." >> ELSE Dirname(p)

\* The directory d and its ancestors, down from the current directory.
Chain(d) == { SubSeq(d, 1, k) : k \in 1..Len(d) }

\* os.makedirs(d, exist_ok=True): d and every missing ancestor.
MkdirLeafOnly(d, ds) ==
    IF Chain(d) \ {d} \subseteq ds THEN ds \cup {d} ELSE ds

Makedirs(d, ds) == ds \cup Chain(d)

\* open(filepath, 'w'): the file exists and is empty from here on.
OpenedForAppend(f) == [exists |-> TRUE, text |-> f.text]

OpenedForWrite(f) == [exists |-> TRUE, text |-> << >>]

\* Lengths at which the text being written can stand in the file: after a
\* flush of the buffer, and complete.
CutPoints(full) ==
    { k \in 1..Len(full) : k % FlushEvery = 0 \/ k = Len(full) }

\* What save() and log_iteration do with an OSError of makedirs, open or
\* write: nothing catches it, the call ends and the caller gets it.
OnWriteErrorSwallowed == [pc |-> "idle", outcome |-> "returned"]

OnWriteError == [pc |-> "idle", outcome |-> "raised"]

(***************************************************************************)
(* Inputs.                                                                 *)
(***************************************************************************)
\* Argument tuples of log_iteration: ArgsB after ArgsA is a decreasing
\* iteration, ArgsA twice a duplicate one; ArgsB has negative values, a NaN
\* loss and an int where a float is declared.
ArgsA ==
    << PyInt(2), PyStr("EASY"), PyFloat(100), PyFloat(20),
       PyFloat(5), PyFloat(3), PyFloat(125) >>

ArgsB ==
    << PyInt(1), PyStr("C0"), PyFloat(-15), PyInt(0),
       PyFloat(-4), PyNaN, PyFloat(250) >>

SampleArgs == { ArgsA, ArgsB }

\* A dict of entry e without field f, with one more key, and with its keys
\* in reverse order.
Without(pairs, f) == SelectSeq(pairs, LAMBDA p : p.k # f)

WithExtra(pairs) == Append(pairs, [k |-> "kl_div", v |-> PyFloat(1)])

Reversed(pairs) == [ i \in 1..Len(pairs) |-> pairs[Len(pairs) + 1 - i] ]

DictA == asdict(EntryOf(ArgsA))

DictB == asdict(EntryOf(ArgsB))

Text(toks) == [exists |-> TRUE, text |-> toks]

NoFile == [exists |-> FALSE, text |-> << >>]

\* Files written by an earlier run of the logger.
SavedFiles ==
    { Text(Serialize(<< >>)),
      Text(Serialize(<< EntryOf(ArgsA) >>)),
      Text(Serialize(<< EntryOf(ArgsB), EntryOf(ArgsA) >>)) }

\* Well-formed files that no save() wrote: keys in another order.
ForeignFiles == { Text(EncodeList(<< Reversed(DictA) >>)) }

\* Files that do not hold a sequence of well-formed records.
CorruptFiles ==
    { Text(<< >>),
      Text(<< GarbageTok >>),
      Text(SubSeq(Serialize(<< EntryOf(ArgsA) >>), 1, 11)),
      Text(EncodeObject(DictA)),
      Text(<< NumTok(FALSE, 5, -1) >>),
      Text(EncodeList(<< Without(DictA, "elapsed_time") >>)),
      Text(EncodeList(<< WithExtra(DictA) >>)),
      Text(EncodeList(<< DictA, Without(DictB, "level") >>)),
      Text(<< Punct("["), NumTok(FALSE, 1, -1), Punct("]") >>) }

InitFiles == {NoFile} \cup SavedFiles \cup ForeignFiles \cup CorruptFiles

(***************************************************************************)
(* plot_metrics(metrics, output_dir), on the value load_metrics returned.  *)
(***************************************************************************)
ChartNames ==
    { "01_mean_return.png", "02_mean_return_with_std.png", "03_policy_loss.png",
      "04_value_loss.png", "05_both_losses.png", "06_return_vs_time.png" }

\* `not metrics`: an empty list, dict or str, zero and None are falsy.
Falsy(data) ==
    CASE data.kind = "list" -> data.items = << >>
      [] data.kind = "dict" -> data.pairs = << >>
      [] OTHER -> \/ data.val.ty = "none"
                  \/ data.val.ty = "str" /\ data.val.s = ""
                  \/ data.val.ty \in {"int", "float"} /\ data.val.n = 0
                                                        /\ data.val.s = ""

\* m['iteration'], m['mean_return'], ... can be read off every element.
Plottable(data) ==
    /\ data.kind = "list"
    /\ \A i \in 1..Len(data.items) :
          data.items[i].isDict /\ FieldSet \subseteq Keys(data.items[i].pairs)

\* The number of records handed to plot_metrics (-1: no call, or no list).
ArgLen(data) == IF data.kind = "list" THEN Len(data.items) ELSE -1

\* The renderer's effect: [outdir, charts, printed, arg, mpl, raised].
PlotMetrics(data, mpl, r) ==
    IF ~mpl
    THEN [r EXCEPT !.printed = << "Error: matplotlib not installed" >>,
                   !.arg = ArgLen(data), !.mpl = FALSE, !.raised = FALSE]
    ELSE IF Falsy(data)
    THEN [r EXCEPT !.outdir = TRUE, !.printed = << "No metrics to plot" >>,
                   !.arg = ArgLen(data), !.mpl = TRUE, !.raised = FALSE]
    ELSE IF ~Plottable(data)
    THEN [r EXCEPT !.outdir = TRUE, !.printed = << >>,
                   !.arg = ArgLen(data), !.mpl = TRUE, !.raised = TRUE]
    ELSE [r EXCEPT !.outdir = TRUE, !.charts = ChartNames,
                   !.printed = << "Saved", "TRAINING METRICS SUMMARY" >>,
                   !.arg = ArgLen(data), !.mpl = TRUE, !.raised = FALSE]

(***************************************************************************)
(* State.                                                                  *)
(***************************************************************************)
VARIABLES
    filepath,     \* self.filepath
    dirs,         \* the directories that exist
    file,         \* the metrics file: [exists, text]
    constructed,  \* a MetricsLogger has been constructed
    metrics,      \* self.metrics
    pc,           \* position in save(): idle, makedirs, open, write
    lastCall,     \* the call in progress or last finished
    outcome,      \* of lastCall: pending, returned, raised
    fault,        \* the I/O fault the environment injected into lastCall
    failed,       \* some save has failed since the start
    before,       \* the file when lastCall began
    dirsBefore,   \* the directories when lastCall began
    written,      \* tokens save() has put into the open file
    loaded,       \* the log the constructor ended with
    calls,        \* the argument tuples of log_iteration since construction
    rend          \* the renderer's output directory, charts and console

vars ==
    << filepath, dirs, file, constructed, metrics, pc, lastCall,
       outcome, fault, failed, before, dirsBefore, written, loaded, calls, rend >>

fsVars == << filepath, dirs, file >>

histVars == << dirsBefore, loaded, calls >>

Init ==
    /\ filepath \in Paths
    /\ file \in InitFiles
    /\ dirs \in { {<< "." >>} \cup Chain(SubSeq(filepath, 1, k)) :
                    k \in (IF file.exists THEN {Len(filepath) - 1}
                           ELSE 0..(Len(filepath) - 1)) }
    /\ constructed = FALSE
    /\ metrics = << >>
    /\ pc = "idle"
    /\ lastCall = "none"
    /\ outcome = "none"
    /\ fault = "none"
    /\ failed = FALSE
    /\ before = file
    /\ dirsBefore = dirs
    /\ written = 0
    /\ loaded = << >>
    /\ calls = << >>
    /\ rend = [outdir |-> FALSE, charts |-> {}, printed |-> << >>,
               arg |-> -1, mpl |-> TRUE, raised |-> FALSE]

\* A call begins: what every operation records of it.
Begin(call) ==
    /\ pc = "idle"
    /\ lastCall' = call
    /\ fault' = "none"
    /\ before' = file
    /\ dirsBefore' = dirs

\* MetricsLogger(filepath)
Construct ==
    /\ Begin("construct")
    /\ constructed' = TRUE
    /\ metrics' = LoadExisting(file)
    /\ loaded' = LoadExisting(file)
    /\ calls' = << >>
    /\ outcome' = "returned"
    /\ UNCHANGED << fsVars, pc, failed, written, rend >>

\* log_iteration(...) up to its call of save()
LogIteration ==
    /\ constructed
    /\ Len(metrics) < MaxLog
    /\ \E a \in SampleArgs :
          /\ metrics' = Append(metrics, EntryOf(a))
          /\ calls' = Append(calls, a)
    /\ Begin("log_iteration")
    /\ pc' = "makedirs"
    /\ outcome' = "pending"
    /\ UNCHANGED << fsVars, constructed, failed, written, loaded, rend >>

\* save() called by the user
Save ==
    /\ constructed
    /\ Begin("save")
    /\ pc' = "makedirs"
    /\ outcome' = "pending"
    /\ UNCHANGED << fsVars, constructed, metrics, failed, written, loaded, calls, rend >>

\* The call in progress ends with an exception.
Raise(f) ==
    /\ fault' = f
    /\ failed' = TRUE
    /\ pc' = OnWriteError.pc
    /\ outcome' = OnWriteError.outcome
    /\ written' = 0

\* save(): os.makedirs(os.path.dirname(self.filepath) or ".", exist_ok=True)
SaveMakedirs ==
    /\ pc = "makedirs"
    /\ dirs' = Makedirs(DirOrDot(filepath), dirs)
    /\ pc' = "open"
    /\ UNCHANGED << filepath, file, constructed, metrics, lastCall,
                    outcome, fault, failed, before, written, histVars, rend >>

\* makedirs fails on a directory it has to create, the ones above it made.
SaveMakedirsFail ==
    /\ pc = "makedirs"
    /\ \E d \in Chain(DirOrDot(filepath)) \ dirs :
          dirs' = dirs \cup (Chain(d) \ {d})
    /\ Raise("makedirs")
    /\ UNCHANGED << filepath, file, constructed, metrics, lastCall,
                    before, histVars, rend >>

\* save(): open(self.filepath, 'w'); FileNotFoundError without the directory.
SaveOpen ==
    /\ pc = "open"
    /\ IF DirOrDot(filepath) \in dirs
       THEN /\ file' = OpenedForWrite(file)
            /\ pc' = "write"
            /\ UNCHANGED << outcome, failed >>
       ELSE /\ pc' = OnWriteError.pc
            /\ outcome' = OnWriteError.outcome
            /\ failed' = TRUE
            /\ UNCHANGED file
    /\ written' = 0
    /\ UNCHANGED << filepath, dirs, constructed, metrics, lastCall,
                    fault, before, histVars, rend >>

\* open fails (permission denied): the file is as it was.
SaveOpenFail ==
    /\ pc = "open"
    /\ Raise("open")
    /\ UNCHANGED << fsVars, constructed, metrics, lastCall,
                    before, histVars, rend >>

\* save(): json.dump(...) into the buffered file, up to the next flush; the
\* with block closes the file after the last one and save() returns.
SaveWrite ==
    /\ pc = "write"
    /\ LET full == Serialize(metrics)
       IN  \E k \in CutPoints(full) :
              /\ k > written
              /\ file' = [exists |-> TRUE,
                          text |-> file.text \o SubSeq(full, written + 1, k)]
              /\ IF k = Len(full)
                 THEN pc' = "idle" /\ outcome' = "returned" /\ written' = 0
                 ELSE written' = k /\ UNCHANGED << pc, outcome >>
    /\ UNCHANGED << filepath, dirs, constructed, metrics, lastCall,
                    fault, failed, before, histVars, rend >>

\* A write or the closing flush fails (disk full): what was flushed stays.
SaveWriteFail ==
    /\ pc = "write"
    /\ Raise("write")
    /\ UNCHANGED << fsVars, constructed, metrics, lastCall,
                    before, histVars, rend >>

\* python plot_metrics.py --metrics filepath: the __main__ block, which ends
\* with exit(1) when the file is missing and calls plot_metrics otherwise.
Plot ==
    /\ Begin("plot")
    /\ \E mpl \in BOOLEAN :
          IF ~file.exists
          THEN /\ rend' = [rend EXCEPT !.printed = << "Error: Metrics file not found" >>,
                                       !.arg = -1, !.raised = FALSE]
               /\ outcome' = "exit1"
          ELSE LET data == json_load(file.text)
               IN  IF ~data.ok \/ (data.kind = "scalar" /\ data.val.ty # "str")
                   THEN /\ rend' = [rend EXCEPT !.printed = << >>, !.arg = -1,
                                                !.raised = TRUE]
                        /\ outcome' = "raised"
                   ELSE /\ rend' = PlotMetrics(data, mpl, rend)
                        /\ outcome' = IF rend'.raised THEN "raised" ELSE "returned"
    /\ UNCHANGED << fsVars, constructed, metrics, pc, failed, written,
                    loaded, calls >>

Next ==
    \/ Construct
    \/ LogIteration
    \/ Save
    \/ SaveMakedirs
    \/ SaveMakedirsFail
    \/ SaveOpen
    \/ SaveOpenFail
    \/ SaveWrite
    \/ SaveWriteFail

Spec == Init /\ [][Next]_vars

\* The renderer run between the calls of a logger whose saves succeed.
NextPlot ==
    \/ Construct
    \/ LogIteration
    \/ Save
    \/ SaveMakedirs
    \/ SaveOpen
    \/ SaveWrite
    \/ Plot

SpecPlot == Init /\ [][NextPlot]_vars

(***************************************************************************)
(* Vocabulary of the properties.                                           *)
(***************************************************************************)
IsPrefix(a, b) == Len(a) <= Len(b) /\ SubSeq(b, 1, Len(a)) = a

\* The text is a JSON array whose every element is a dict of exactly the
\* seven fields.
WellFormed(toks) ==
    LET data == json_load(toks)
    IN  /\ data.ok
        /\ data.kind = "list"
        /\ \A i \in 1..Len(data.items) : CanBuild(data.items[i])

\* The record sequence a file holds (none when it holds no such sequence).
Stored(f) ==
    IF f.exists /\ WellFormed(f.text)
    THEN [ i \in 1..Len(json_load(f.text).items) |->
             BuildEntry(json_load(f.text).items[i]) ]
    ELSE << >>

\* The entries of a sequence of argument tuples, field by field.
Carries(entry, a) == \A j \in 1..Len(Fields) : entry[Fields[j]] = a[j]

\* The logs of at most n sample entries, and the texts save() writes of them.
RECURSIVE LogsUpTo(_)
LogsUpTo(n) ==
    IF n = 0 THEN { << >> }
    ELSE LogsUpTo(n - 1)
         \cup { Append(l, EntryOf(a)) : l \in LogsUpTo(n - 1), a \in SampleArgs }

WrittenBySave(toks) == \E l \in LogsUpTo(MaxLog) : toks = Serialize(l)

SaveEnded == pc = "idle" /\ lastCall \in {"save", "log_iteration"}

\* C1: a logger constructed on the path right after a save() that returned
\* holds exactly the records the saving logger held, in order, field by field.
C1_RoundTrip ==
    [][ ( /\ SaveEnded
          /\ outcome = "returned"
          /\ lastCall' = "construct" )
        => ( /\ Len(metrics') = Len(metrics)
             /\ \A i \in 1..Len(metrics) :
                   \A f \in FieldSet : metrics'[i][f] = metrics[i][f] ) ]_vars

C1_Witness ==
    /\ lastCall = "construct"
    /\ calls = << >>
    /\ metrics = << EntryOf(ArgsA), EntryOf(ArgsB) >>

\* C2: when log_iteration has returned, the file holds the whole in-memory
\* log: the records loaded at construction and then every appended one.
C2_PersistOnAppend ==
    ( /\ pc = "idle"
      /\ lastCall = "log_iteration"
      /\ outcome = "returned" )
    => ( /\ file.exists
         /\ WellFormed(file.text)
         /\ Stored(file) = metrics
         /\ Len(metrics) = Len(loaded) + Len(calls)
         /\ SubSeq(metrics, 1, Len(loaded)) = loaded )

C2_Witness ==
    /\ pc = "idle"
    /\ lastCall = "log_iteration"
    /\ outcome = "returned"
    /\ Len(loaded) >= 1
    /\ Len(calls) >= 1

\* C3: from an empty log, after k calls of log_iteration the log has k
\* records and the i-th carries the arguments of the i-th call, whatever the
\* iteration numbers are and whether or not the saves succeed.
C3_AppendGrowth ==
    ( constructed /\ loaded = << >> )
    => ( /\ Len(metrics) = Len(calls)
         /\ \A i \in 1..Len(calls) : Carries(metrics[i], calls[i]) )

C3_Witness ==
    /\ constructed
    /\ loaded = << >>
    /\ pc = "idle"
    /\ Len(calls) = 2
    /\ calls[2][1].n <= calls[1][1].n

\* C4: constructing on a file that holds no sequence of well-formed records
\* returns with an empty log, also when some of its records are well-formed.
C4_CorruptFileEmptyLog ==
    ( /\ lastCall = "construct"
      /\ before.exists
      /\ ~WellFormed(before.text) )
    => ( outcome = "returned" /\ metrics = << >> )

C4_Witness ==
    /\ lastCall = "construct"
    /\ before.exists
    /\ ~WellFormed(before.text)
    /\ json_load(before.text).ok
    /\ json_load(before.text).kind = "list"
    /\ Len(json_load(before.text).items) = 2
    /\ CanBuild(json_load(before.text).items[1])

\* C5 as stated: during and after a save the file is the previous file or
\* the complete new snapshot.
C5_AtomicOverwrite ==
    lastCall \in {"save", "log_iteration"}
    => ( file = before \/ file = Text(Serialize(metrics)) )

\* C5 amended: during and after a save the file is the previous file, or a
\* prefix (empty, partial or complete) of the new snapshot's text; it is the
\* previous file until it is opened, and the complete new snapshot when the
\* save has returned.
C5_PrefixOfSnapshot ==
    lastCall \in {"save", "log_iteration"}
    => ( /\ file = before \/ (file.exists /\ IsPrefix(file.text, Serialize(metrics)))
         /\ (pc \in {"makedirs", "open"} \/ fault \in {"makedirs", "open"})
               => file = before
         /\ (pc = "idle" /\ outcome = "returned")
               => file = Text(Serialize(metrics)) )

C5_Witness ==
    /\ lastCall \in {"save", "log_iteration"}
    /\ fault = "write"
    /\ before.exists
    /\ WellFormed(before.text)
    /\ file.text # << >>
    /\ file # before
    /\ Len(file.text) < Len(Serialize(metrics))

\* C6: a save() with no log_iteration since construction, on a file that a
\* save() wrote, leaves the file as it was, token for token.
C6_ReloadIdempotent ==
    ( /\ pc = "idle"
      /\ lastCall = "save"
      /\ outcome = "returned"
      /\ calls = << >>
      /\ before.exists
      /\ WrittenBySave(before.text) )
    => file = before

C6_Witness ==
    /\ pc = "idle"
    /\ lastCall = "save"
    /\ outcome = "returned"
    /\ calls = << >>
    /\ before.exists
    /\ WrittenBySave(before.text)
    /\ Len(loaded) = 2

\* C7: once makedirs, open or a write has failed, the call is over and its
\* outcome is the exception: nothing swallows it, nothing runs again.
C7_WriteFailureSurfaces ==
    fault # "none" => ( pc = "idle" /\ outcome = "raised" /\ written = 0 )

C7_Witness ==
    /\ fault = "write"
    /\ lastCall = "log_iteration"
    /\ outcome = "raised"

\* C8: a save the environment does not fail returns, with the whole chain of
\* parent directories and the file in place, whatever existed before.
C8_MissingDirsCreated ==
    ( SaveEnded /\ fault = "none" )
    => ( /\ outcome = "returned"
         /\ Chain(DirOrDot(filepath)) \subseteq dirs
         /\ dirsBefore \subseteq dirs
         /\ file.exists )

C8_Witness ==
    /\ SaveEnded
    /\ fault = "none"
    /\ outcome = "returned"
    /\ Len(filepath) = 3
    /\ dirsBefore = { << "." >> }

\* C9 as stated: plot_metrics on an empty record sequence (matplotlib being
\* there) prints the notice and nothing else and changes nothing on disk.
C9_EmptyLogNoOutput ==
    [][ ( lastCall' = "plot" /\ rend'.arg = 0 /\ rend'.mpl )
        => ( /\ rend'.printed = << "No metrics to plot" >>
             /\ rend'.outdir = rend.outdir
             /\ rend'.charts = rend.charts ) ]_vars

\* C10: while no save has failed, each finished call leaves a file whose
\* records extend the ones it held when the call began; a constructor
\* leaves the file alone and a log_iteration adds exactly one record.
C10_AppendOnly ==
    ( pc = "idle" /\ ~failed /\ lastCall \in {"construct", "log_iteration", "save"} )
    => ( /\ IsPrefix(Stored(before), Stored(file))
         /\ lastCall = "construct" => file = before
         /\ lastCall = "log_iteration"
               => /\ Len(Stored(file)) = Len(Stored(before)) + 1
                  /\ Stored(file)[Len(Stored(file))] = EntryOf(calls[Len(calls)]) )

C10_Witness ==
    /\ pc = "idle"
    /\ ~failed
    /\ lastCall = "log_iteration"
    /\ loaded = << EntryOf(ArgsB) >>
    /\ Len(calls) = 1

====
